---- MODULE Spec2Model ----
(***************************************************************************)
(* gridScope-core: territory generation (src/modelos/processar_voronoi.py),*)
(* its technical validation (src/etl/validacao_tecnica.py) and the merge   *)
(* of the territories with the market data (src/utils.py).                 *)
(*                                                                         *)
(* Geometry is modelled on a lattice.  A location <<x, y>> is one unit     *)
(* area element of the projected plane (EPSG:31984); a polygon or          *)
(* multipolygon is the set of locations it covers; union, intersection and *)
(* emptiness are the set operations; the parts of a multipolygon are its   *)
(* edge-connected components (two polygons that touch in a corner only are *)
(* two parts).  A point geometry is the location that holds it.            *)
(***************************************************************************)
EXTENDS Integers, Sequences, FiniteSets

VARIABLES
    cidade,           \* the polygon the geocoder returns for CIDADE_ALVO
    cidade_valida,    \* whether that polygon is a valid geometry
    transformadores,  \* table transformadores: rows [SUB, geometry]
    subestacoes,      \* table subestacoes: rows [COD_ID, NOME]
    pc,               \* position of main() of processar_voronoi.py
    limite,           \* main(): limite (geometry of gdf_limite)
    limite_valido,    \* main(): whether the geometry of limite is valid
    pontos,           \* main(): pontos (the rows of gdf_pontos, in row order)
    territorios,      \* main(): territorios (the rows of gdf_final)
    tabela_voronoi,   \* table territorios_voronoi (rows in EPSG:4326)
    geojson,          \* subestacoes_logicas.geojson: [existe, linhas]
    laudo,            \* what the last calcular_validacao() reported
    registro          \* the WARNING and ERROR records the loggers received

(* validacao_tecnica.py, test [2/3] *)
VARIABLES
    score,            \* silhouette_score(...), in hundredths
    confianca         \* confianca_percent, in thirds of a percent; -1: none yet

varsPipeline == <<cidade, cidade_valida, transformadores, subestacoes, pc, limite,
                  limite_valido, pontos, territorios, tabela_voronoi, geojson,
                  laudo, registro>>

(* chat_service.py: the global key_manager, the provider and the requests *)
VARIABLES
    api_keys,         \* len(GEMINI_API_KEYS); a key is its index 0..api_keys-1
    current_index,    \* key_manager.current_index
    exhausted_keys,   \* key_manager.exhausted_keys, a set of indices
    limitadas,        \* the keys the provider answers 429 for
    pedido            \* per request thread: where its call stands

(* run_all.py *)
VARIABLES
    scripts,          \* the step scripts that exist under src/
    ra_pc,            \* the statement of __main__ that runs next
    passos,           \* per batch step: -1 not run, -2 script missing, else exit code
    filhos,           \* per service: "nao_iniciado", "rodando", "saiu", "terminado"
    atribuidos,       \* the services whose Popen is bound to its variable
    ra_codigo         \* exit code of run_all, -1 while it runs

(* analise_mercado.py, steps 1 and 2 *)
VARIABLES
    voronoi_db,       \* table territorios_voronoi as the analysis reads it
    voronoi_arquivo,  \* rows of subestacoes_logicas_aracaju.geojson, <<>> if absent
    cache_trafos,     \* cache_mapeamento_trafos.parquet: [existe, mapa]
    voronoi_lido,     \* gdf_voronoi, the territory set the last analysis run loaded
    mapa_trafo_sub,   \* the mapping the last analysis run used
    am_estado         \* "nenhum", "ok" or "abortado"

(* utils.fundir_dados_geo_mercado *)
VARIABLES
    gdf_fusao,        \* its argument gdf
    dados_mercado,    \* its argument dados_mercado
    dados_finais      \* its result; <<>> before the call

varsSilhueta == <<score, confianca>>
varsGemini == <<api_keys, current_index, exhausted_keys, limitadas, pedido>>
varsRunAll == <<scripts, ra_pc, passos, filhos, atribuidos, ra_codigo>>
varsMercado == <<voronoi_db, voronoi_arquivo, cache_trafos, voronoi_lido,
                 mapa_trafo_sub, am_estado>>
varsFusao == <<gdf_fusao, dados_mercado, dados_finais>>

(* what the scripts of the territory pipeline never touch *)
Fora == <<varsSilhueta, varsGemini, varsRunAll, varsMercado, varsFusao>>

(* what each of the other parts never touches *)
ForaSilhueta == <<varsPipeline, varsGemini, varsRunAll, varsMercado, varsFusao>>
ForaGemini == <<varsPipeline, varsSilhueta, varsRunAll, varsMercado, varsFusao>>
ForaRunAll == <<varsPipeline, varsSilhueta, varsGemini, varsMercado, varsFusao>>
ForaMercado == <<varsPipeline, varsSilhueta, varsGemini, varsRunAll, varsFusao>>
ForaFusao == <<varsPipeline, varsSilhueta, varsGemini, varsRunAll, varsMercado>>

vars == <<varsPipeline, Fora>>

----------------------------------------------------------------------------
(* Bounds of the model *)

GW == 2          \* width of the region that holds the boundary
GH == 2          \* height of that region
MaxPontos == 3   \* rows of table transformadores
MaxSubs == 2     \* rows of table subestacoes
NumOwners == 2   \* distinct substation ids
NumNomes == 2    \* distinct substation names
FaixaW == 4      \* length of the strip that holds the boundary in SpecFaixa
MaxLinhas == 2   \* features of a territory file in SpecValidacao
NumChaves == 2   \* configured Gemini API keys
NumPedidos == 2  \* request threads of the chat service
NumTrafos == 2   \* transformers the market analysis maps
MaxItens == 1    \* items of the market report that are merged

(* envelope.buffer(20000): the buffer, in lattice units *)
Margem == 1

Owners == 1..NumOwners
Nomes == 1..NumNomes
Regiao == (0..(GW - 1)) \X (0..(GH - 1))
Faixa == (0..(FaixaW - 1)) \X {0}

(* 'SUB-' || t."SUB": the default name of owner o; names of table          *)
(* subestacoes are 1..NumNomes, the defaults are the negative numbers.      *)
NomePadrao(o) == 0 - o

----------------------------------------------------------------------------
(* Lattice geometry *)

Min(S) == CHOOSE m \in S : \A k \in S : m <= k
Max(S) == CHOOSE m \in S : \A k \in S : m >= k

Xs(G) == {l[1] : l \in G}
Ys(G) == {l[2] : l \in G}

(* GeoSeries.envelope / total_bounds: the bounding rectangle *)
Envelope(G) ==
    IF G = {} THEN {}
    ELSE (Min(Xs(G))..Max(Xs(G))) \X (Min(Ys(G))..Max(Ys(G)))

(* buffer(d) of a rectangle, as far as voronoi_diagram reads it: its       *)
(* bounding rectangle, d further out on every side                          *)
Buffer(G, d) ==
    IF G = {} THEN {}
    ELSE ((Min(Xs(G)) - d)..(Max(Xs(G)) + d)) \X ((Min(Ys(G)) - d)..(Max(Ys(G)) + d))

LexMenor(a, b) == a[1] < b[1] \/ (a[1] = b[1] /\ a[2] < b[2])
MinLoc(S) == CHOOSE m \in S : \A k \in S \ {m} : LexMenor(m, k)

RECURSIVE OrdenarLocs(_)
OrdenarLocs(S) ==
    IF S = {} THEN <<>>
    ELSE <<MinLoc(S)>> \o OrdenarLocs(S \ {MinLoc(S)})

Vizinhos(l) == {<<l[1] + 1, l[2]>>, <<l[1] - 1, l[2]>>,
                <<l[1], l[2] + 1>>, <<l[1], l[2] - 1>>}

RECURSIVE Componente(_, _)
Componente(G, C) ==
    LET novos == {l \in G \ C : Vizinhos(l) \cap C # {}}
    IN IF novos = {} THEN C ELSE Componente(G, C \cup novos)

(* the parts of a (multi)polygon, in a fixed order *)
RECURSIVE Partes(_)
Partes(G) ==
    IF G = {} THEN <<>>
    ELSE LET c == Componente(G, {MinLoc(G)})
         IN <<c>> \o Partes(G \ c)

(* Coordinates.  A point sits at a fixed small offset from the centre of   *)
(* its location, (1/(4N), 1/(4N^2)) with N larger than any coordinate       *)
(* difference, so that no location centre is equidistant from two sites:   *)
(* a ridge of the diagram never runs through the centre of a location and  *)
(* every location lies in exactly one cell.                                 *)
NOff == GW + GH + 2 * Margem + 1
Escala == 4 * NOff * NOff
Dist2(l, s) ==
    LET dx == Escala * l[1] - (Escala * s[1] + NOff)
        dy == Escala * l[2] - (Escala * s[2] + 1)
    IN dx * dx + dy * dy

----------------------------------------------------------------------------
(* processar_voronoi.py: the tables as the SQL of carregar_trafos reads them *)

(* t LEFT JOIN subestacoes s ON t."SUB" = s."COD_ID", with                  *)
(* COALESCE(s."NOME", 'SUB-' || t."SUB"): one row per matching substation   *)
(* row, one row with the default name when none matches                     *)
JuntarNomes(t, subs) ==
    LET casam == {s \in subs : s.COD_ID = t.SUB}
    IN IF casam = {}
       THEN {[cod_id_sub |-> t.SUB, nome_sub |-> NomePadrao(t.SUB), geometry |-> t.geometry]}
       ELSE {[cod_id_sub |-> t.SUB, nome_sub |-> s.NOME, geometry |-> t.geometry] : s \in casam}

(* t.geometry && ST_MakeEnvelope(bbox - 0.05, bbox + 0.05): 0.05 degree is *)
(* less than half a lattice unit (the unit is the 20 km of the buffer), so  *)
(* the window is the bounding rectangle of the boundary                     *)
JanelaSQL(gdf_limite) == Envelope(gdf_limite)

ConsultaTrafos(gdf_limite, trafos, subs) ==
    UNION {JuntarNomes(t, subs) : t \in {u \in trafos : u.geometry \in JanelaSQL(gdf_limite)}}

(* the orders in which a query without ORDER BY may return its rows *)
RECURSIVE Ordens(_)
Ordens(S) ==
    IF S = {} THEN {<<>>}
    ELSE UNION {{<<r>> \o o : o \in Ordens(S \ {r})} : r \in S}

----------------------------------------------------------------------------
(* processar_voronoi_robusto *)

envelope_expandido(gdf_limite) == Buffer(Envelope(gdf_limite), Margem)

(* gdf_pontos.union_all(): the multipoint of the distinct locations *)
pontos_uniao(gdf_pontos) == {gdf_pontos[i].geometry : i \in 1..Len(gdf_pontos)}

(* one cell of the diagram: the locations of the clipping rectangle that   *)
(* are nearer to site s than to every other site                            *)
Celula(s, sitios, env) ==
    {l \in env : \A t \in sitios \ {s} : Dist2(l, s) < Dist2(l, t)}

(* the diagram without the envelope argument: clipped to the rectangle of   *)
(* the sites alone                                                          *)
voronoi_sem_envelope(sitios, envelope) ==
    LET ordem == OrdenarLocs(sitios)
    IN [i \in 1..Len(ordem) |-> Celula(ordem[i], sitios, Envelope(sitios))]

(* shapely.ops.voronoi_diagram(geom, envelope): one cell per distinct site, *)
(* clipped to the envelope extended to hold every site                      *)
voronoi_diagram(sitios, envelope) ==
    LET env == Envelope(envelope \cup sitios)
        ordem == OrdenarLocs(sitios)
    IN [i \in 1..Len(ordem) |-> Celula(ordem[i], sitios, env)]

(* gpd.sjoin(gdf_voronoi, gdf_pontos, how="inner", predicate="contains"):  *)
(* one row per (cell, point row) with the point inside the cell, by cell    *)
(* and then by point row                                                    *)
LinhasDaCelula(c, gdf_pontos) ==
    LET F[j \in 0..Len(gdf_pontos)] ==
            IF j = 0 THEN <<>>
            ELSE IF gdf_pontos[j].geometry \in c
                 THEN Append(F[j - 1], [geometry |-> c,
                                        cod_id_sub |-> gdf_pontos[j].cod_id_sub,
                                        nome_sub |-> gdf_pontos[j].nome_sub])
                 ELSE F[j - 1]
    IN F[Len(gdf_pontos)]

sjoin_contains(gdf_voronoi, gdf_pontos) ==
    LET G[i \in 0..Len(gdf_voronoi)] ==
            IF i = 0 THEN <<>>
            ELSE G[i - 1] \o LinhasDaCelula(gdf_voronoi[i], gdf_pontos)
    IN G[Len(gdf_voronoi)]

(* the renamed rows of the join, not merged by key *)
dissolve_sem_fusao(gdf_mapeado) ==
    [n \in 1..Len(gdf_mapeado) |->
        [COD_ID |-> gdf_mapeado[n].cod_id_sub,
         NOM |-> gdf_mapeado[n].nome_sub,
         geometry |-> gdf_mapeado[n].geometry]]

RECURSIVE OrdenarInts(_)
OrdenarInts(S) ==
    IF S = {} THEN <<>>
    ELSE <<Min(S)>> \o OrdenarInts(S \ {Min(S)})

(* dissolve(by="cod_id_sub", aggfunc={"nome_sub": "first"}).reset_index()   *)
(* and the rename to COD_ID / NOM: one row per key, in key order; the       *)
(* geometry is the union of the group, the name that of its first row       *)
dissolve(gdf_mapeado) ==
    LET idx == 1..Len(gdf_mapeado)
        chaves == OrdenarInts({gdf_mapeado[i].cod_id_sub : i \in idx})
        grupo(k) == {i \in idx : gdf_mapeado[i].cod_id_sub = k}
    IN [n \in 1..Len(chaves) |->
            [COD_ID |-> chaves[n],
             NOM |-> gdf_mapeado[Min(grupo(chaves[n]))].nome_sub,
             geometry |-> UNION {gdf_mapeado[i].geometry : i \in grupo(chaves[n])}]]

ComGeometria(r, g) == [COD_ID |-> r.COD_ID, NOM |-> r.NOM, geometry |-> g]

(* the rows that intersect the mask, left uncut *)
clip_sem_recorte(gdf, mask) ==
    SelectSeq(gdf, LAMBDA r : r.geometry \cap mask # {})

(* gpd.clip(gdf, mask): the rows that intersect the mask, each cut to it *)
clip(gdf, mask) ==
    LET F[j \in 0..Len(gdf)] ==
            IF j = 0 THEN <<>>
            ELSE IF gdf[j].geometry \cap mask # {}
                 THEN Append(F[j - 1], ComGeometria(gdf[j], gdf[j].geometry \cap mask))
                 ELSE F[j - 1]
    IN F[Len(gdf)]

(* gdf[~gdf.is_empty] *)
sem_vazios(gdf) == SelectSeq(gdf, LAMBDA r : r.geometry # {})

explode_maior_parte(gdf) ==
    LET maior(G) == LET p == Partes(G)
                    IN p[CHOOSE k \in 1..Len(p) :
                             \A n \in 1..Len(p) :
                                 \/ Cardinality(p[n]) < Cardinality(p[k])
                                 \/ (Cardinality(p[n]) = Cardinality(p[k]) /\ k <= n)]
    IN [j \in 1..Len(gdf) |-> ComGeometria(gdf[j], maior(gdf[j].geometry))]

explode_sem_partes(gdf) == gdf

(* explode(index_parts=False).reset_index(drop=True): one row per part,    *)
(* every part keeping the attributes of its row                             *)
explode(gdf) ==
    LET linhas(r) == LET p == Partes(r.geometry)
                     IN [k \in 1..Len(p) |-> ComGeometria(r, p[k])]
        F[j \in 0..Len(gdf)] ==
            IF j = 0 THEN <<>> ELSE F[j - 1] \o linhas(gdf[j])
    IN F[Len(gdf)]

gdf_territorios(gdf_limite, gdf_pontos) ==
    dissolve(sjoin_contains(
        voronoi_diagram(pontos_uniao(gdf_pontos), envelope_expandido(gdf_limite)),
        gdf_pontos))

processar_voronoi_robusto(gdf_limite, gdf_pontos) ==
    explode(sem_vazios(clip(gdf_territorios(gdf_limite, gdf_pontos), gdf_limite)))

----------------------------------------------------------------------------
(* Coordinate systems.  The working system is EPSG:31984; a location given *)
(* in EPSG:4326 is the triple <<4326, x, y>>, which no operation on         *)
(* projected geometry takes for a location of the plane.                    *)

to_crs_4326(gdf) ==
    [i \in 1..Len(gdf) |->
        ComGeometria(gdf[i], {<<4326, l[1], l[2]>> : l \in gdf[i].geometry})]

to_crs_31984(gdf) ==
    [i \in 1..Len(gdf) |->
        ComGeometria(gdf[i], {<<l[2], l[3]>> : l \in gdf[i].geometry})]

----------------------------------------------------------------------------
(* validacao_tecnica.py: calcular_validacao *)

SemLaudo ==
    [estado |-> "nenhum", n_fragmentos |-> 0, n_subs |-> 0, resultado |-> "",
     acertos |-> 0, total |-> 0, consistente |-> FALSE, insight |-> FALSE,
     pontos |-> {}, amostra |-> {}]

(* lines 53-61: the points the tests work on, those of the owners that     *)
(* have a row in the file and that lie within the mapped area               *)
pontos_sem_filtro_de_dono(todos, gdf_terr) ==
    {p \in todos : p.geometry \in UNION {gdf_terr[j].geometry : j \in 1..Len(gdf_terr)}}
pontos_validos(todos, gdf_terr) ==
    LET subs_validas == {gdf_terr[j].COD_ID : j \in 1..Len(gdf_terr)}
        area_total == UNION {gdf_terr[j].geometry : j \in 1..Len(gdf_terr)}
    IN {p \in todos : p.cod_id_sub \in subs_validas /\ p.geometry \in area_total}

(* lines 83-86: up to 100 points all of them are the sample *)
amostra_de(gdf_pontos) == gdf_pontos

(* the rows of sjoin(gdf_pontos, gdf_territorios, how="left",               *)
(* predicate="within") on which the two ids agree                           *)
Acertos(gdf_pontos, gdf_terr) ==
    {<<p, j>> \in gdf_pontos \X (1..Len(gdf_terr)) :
        /\ p.geometry \in gdf_terr[j].geometry
        /\ p.cod_id_sub = gdf_terr[j].COD_ID}

(* line 76: the verdict of test [1/3]; ratio_frag < 1.5 in integers *)
resultado_teste(n_fragmentos, n_subs) ==
    IF 2 * n_fragmentos < 3 * n_subs THEN "BOM" ELSE "ALERTA"

(* line 131: whether the final report carries the [INSIGHT] paragraph;     *)
(* ratio_frag > 1.5 in integers                                             *)
insight_final(n_fragmentos, n_subs) == 2 * n_fragmentos > 3 * n_subs

(* lines 33-137: the report over the rows of the file.  The divisions of   *)
(* lines 69 and 117 raise ZeroDivisionError when the file has no row or no *)
(* point is left: estado "erro", no report.                                 *)
validar_territorios(linhas, trafos) ==
    LET gdf_terr == to_crs_31984(linhas)
        todos == {[cod_id_sub |-> t.SUB, geometry |-> t.geometry] : t \in trafos}
        gdf_pontos == pontos_validos(todos, gdf_terr)
        n_fragmentos == Len(explode(gdf_terr))
        n_subs == Len(gdf_terr)
        acertos == Cardinality(Acertos(gdf_pontos, gdf_terr))
        total == Cardinality(gdf_pontos)
    IN IF n_subs = 0 \/ total = 0
       THEN [SemLaudo EXCEPT !.estado = "erro",
                             !.n_fragmentos = n_fragmentos, !.n_subs = n_subs]
       ELSE [estado |-> "ok",
             n_fragmentos |-> n_fragmentos,
             n_subs |-> n_subs,
             resultado |-> resultado_teste(n_fragmentos, n_subs),
             acertos |-> acertos,
             total |-> total,
             consistente |-> 100 * acertos > 98 * total,
             insight |-> insight_final(n_fragmentos, n_subs),
             pontos |-> gdf_pontos,
             amostra |-> amostra_de(gdf_pontos)]

calcular_sem_verificar_arquivo(arquivo, trafos) ==
    validar_territorios(arquivo.linhas, trafos)

(* lines 29-31: without the file the function logs an error and returns *)
calcular_validacao(arquivo, trafos) ==
    IF ~arquivo.existe
    THEN [SemLaudo EXCEPT !.estado = "sem_arquivo"]
    ELSE validar_territorios(arquivo.linhas, trafos)

----------------------------------------------------------------------------
(* utils.fundir_dados_geo_mercado, lines 130-144: the geometry kept for    *)
(* every key of the territory rows.  The rows are walked in order and each *)
(* row overwrites the entry of its keys (its NOM and its COD_ID), so the   *)
(* last row that carries a key decides.                                     *)
geo_map(gdf) ==
    LET chaves(r) == {<<"NOM", r.NOM>>, <<"COD_ID", r.COD_ID>>}
        todas == UNION {chaves(gdf[i]) : i \in 1..Len(gdf)}
        ultima(k) == Max({i \in 1..Len(gdf) : k \in chaves(gdf[i])})
    IN [k \in todas |-> gdf[ultima(k)].geometry]

----------------------------------------------------------------------------
(* The state machine *)

SemArquivo == [existe |-> FALSE, linhas |-> <<>>]

(* a request thread that is not inside call_gemini_with_retry_and_rotation *)
PedidoFora ==
    [pc |-> "fora", key_attempt |-> 0, cliente |-> -1, respondeu |-> {},
     tentativas |-> 0, retorno |-> -1, resultado |-> "nenhum"]

(* the state of the other parts while they are not running *)
SilhuetaParada ==
    /\ score = 0
    /\ confianca = -1

GeminiParado ==
    /\ api_keys = 1
    /\ current_index = 0
    /\ exhausted_keys = {}
    /\ limitadas = {}
    /\ pedido = [r \in 1..NumPedidos |-> PedidoFora]

(* run_all.py has not been started *)
Passos == {"processar_voronoi.py", "analise_mercado.py", "train_model.py"}
Servicos == <<"api", "api_ai", "dash">>
NomesServicos == {Servicos[i] : i \in 1..Len(Servicos)}

RunAllParado ==
    /\ scripts = Passos
    /\ ra_pc = "inicio"
    /\ passos = [p \in Passos |-> -1]
    /\ filhos = [s \in NomesServicos |-> "nao_iniciado"]
    /\ atribuidos = {}
    /\ ra_codigo = -1

(* the pipeline is not running while the other parts are looked at *)
PipelineParado ==
    /\ cidade = Regiao
    /\ cidade_valida = TRUE
    /\ transformadores = {}
    /\ subestacoes = {}
    /\ pc = "abortado"
    /\ limite = {}
    /\ limite_valido = TRUE
    /\ pontos = <<>>
    /\ territorios = <<>>
    /\ tabela_voronoi = <<>>
    /\ geojson = SemArquivo
    /\ laudo = SemLaudo
    /\ registro = {}

(* no analysis has run, no table, no file, no cache *)
SemCache == [existe |-> FALSE, mapa |-> <<>>]

MercadoParado ==
    /\ voronoi_db = <<>>
    /\ voronoi_arquivo = <<>>
    /\ cache_trafos = SemCache
    /\ voronoi_lido = <<>>
    /\ mapa_trafo_sub = <<>>
    /\ am_estado = "nenhum"

FusaoParada ==
    /\ gdf_fusao = <<>>
    /\ dados_mercado = <<>>
    /\ dados_finais = <<>>

(* everything but part m is at rest *)
Parado(m) ==
    /\ IF m = "pipeline" THEN TRUE ELSE PipelineParado
    /\ IF m = "silhueta" THEN TRUE ELSE SilhuetaParada
    /\ IF m = "gemini" THEN TRUE ELSE GeminiParado
    /\ IF m = "run_all" THEN TRUE ELSE RunAllParado
    /\ IF m = "mercado" THEN TRUE ELSE MercadoParado
    /\ IF m = "fusao" THEN TRUE ELSE FusaoParada

ForaParado == Parado("pipeline")

(* An invalid polygon is a ring that crosses itself in a point: on the     *)
(* lattice, parts that touch in corners only, drawn as one ring (a bow     *)
(* tie).                                                                    *)
PodeSerInvalida(G) == Len(Partes(G)) >= 2

(* geometry.make_valid(): the crossing ring becomes a multipolygon of the  *)
(* same area, and a valid geometry stays as it is                           *)
make_valid_sem_reparo(g) == g

make_valid(g) == [locs |-> g.locs, valida |-> TRUE]

(* A record of a logger: logger.error / logger.warning with a fixed text;  *)
(* no message of the two scripts names a substation (dono = 0)              *)
Mensagem(nivel, msg) == [nivel |-> nivel, msg |-> msg, dono |-> 0]

Init ==
    /\ cidade \in (SUBSET Regiao) \ {{}}
    /\ cidade_valida \in {v \in BOOLEAN : ~v => PodeSerInvalida(cidade)}
    /\ transformadores \in
          {T \in SUBSET [SUB : Owners, geometry : Regiao] : Cardinality(T) <= MaxPontos}
    /\ subestacoes \in
          {S \in SUBSET [COD_ID : Owners, NOME : Nomes] : Cardinality(S) <= MaxSubs}
    /\ pc = "inicio"
    /\ limite = {}
    /\ limite_valido = TRUE
    /\ pontos = <<>>
    /\ territorios = <<>>
    /\ tabela_voronoi = <<>>
    /\ geojson = SemArquivo
    /\ laudo = SemLaudo
    /\ registro = {}
    /\ ForaParado

(* sys.exit(1), or an exception nobody catches: the process ends *)
Abortar ==
    /\ pc' = "abortado"
    /\ limite' = {}
    /\ limite_valido' = TRUE
    /\ pontos' = <<>>
    /\ territorios' = <<>>

(* obter_limite_municipal: the geocoder answers and the polygon is         *)
(* repaired, or the geocoder fails and the run exits                        *)
ObterLimite ==
    /\ UNCHANGED Fora
    /\ pc = "inicio"
    /\ \/ /\ LET g == make_valid([locs |-> cidade, valida |-> cidade_valida])
             IN /\ limite' = g.locs
                /\ limite_valido' = g.valida
          /\ pc' = "limite"
          /\ UNCHANGED <<pontos, territorios, registro>>
       \/ /\ Abortar
          /\ registro' = registro \cup {Mensagem("ERROR", "Erro critico ao baixar limite")}
    /\ UNCHANGED <<cidade, cidade_valida, transformadores, subestacoes,
                   tabela_voronoi, geojson, laudo>>

(* carregar_trafos: the rows of the query in the order the database hands  *)
(* them over; no row, and the run exits                                     *)
CarregarTrafos ==
    /\ UNCHANGED Fora
    /\ pc = "limite"
    /\ LET linhas == ConsultaTrafos(limite, transformadores, subestacoes)
       IN IF linhas = {}
          THEN /\ Abortar
               /\ registro' = registro \cup
                      {Mensagem("ERROR", "Nenhum transformador encontrado.")}
          ELSE /\ pontos' \in Ordens(linhas)
               /\ pc' = "pontos"
               /\ UNCHANGED <<limite, limite_valido, territorios, registro>>
    /\ UNCHANGED <<cidade, cidade_valida, transformadores, subestacoes,
                   tabela_voronoi, geojson, laudo>>

(* territorios = processar_voronoi_robusto(limite, pontos); pontos is not  *)
(* read again; the function logs at level INFO only                         *)
ProcessarVoronoi ==
    /\ UNCHANGED Fora
    /\ pc = "pontos"
    /\ territorios' = processar_voronoi_robusto(limite, pontos)
    /\ pontos' = <<>>
    /\ pc' = "territorios"
    /\ UNCHANGED <<cidade, cidade_valida, transformadores, subestacoes, limite,
                   limite_valido, tabela_voronoi, geojson, laudo, registro>>

(* salvar_voronoi(territorios_wgs84) inside try/except: the table is       *)
(* replaced, or the database is out of reach, a warning is logged and the  *)
(* run goes on                                                              *)
SalvarBanco ==
    /\ UNCHANGED Fora
    /\ pc = "territorios"
    /\ \/ /\ tabela_voronoi' = to_crs_4326(territorios)
          /\ UNCHANGED registro
       \/ /\ UNCHANGED tabela_voronoi
          /\ registro' = registro \cup {Mensagem("WARNING", "Banco inacessivel")}
    /\ pc' = "salvo"
    /\ UNCHANGED <<cidade, cidade_valida, transformadores, subestacoes, limite,
                   limite_valido, pontos, territorios, geojson, laudo>>

(* territorios_wgs84.to_file(path_json, driver="GeoJSON"), which may raise *)
(* (nobody catches it), then the map, whose failure is only printed         *)
ExportarGeoJSON ==
    /\ UNCHANGED Fora
    /\ pc = "salvo"
    /\ \/ /\ geojson' = [existe |-> TRUE, linhas |-> to_crs_4326(territorios)]
          /\ pc' = "concluido"
          /\ UNCHANGED <<limite, limite_valido, pontos, territorios>>
       \/ /\ Abortar
          /\ UNCHANGED geojson
    /\ UNCHANGED <<cidade, cidade_valida, transformadores, subestacoes,
                   tabela_voronoi, laudo, registro>>

(* python validacao_tecnica.py, once the generation has ended *)
Validar ==
    /\ UNCHANGED Fora
    /\ pc \in {"concluido", "abortado"}
    /\ laudo' = calcular_validacao(geojson, transformadores)
    /\ registro' = IF geojson.existe THEN registro
                   ELSE registro \cup {Mensagem("ERROR", "Arquivo nao encontrado")}
    /\ UNCHANGED <<cidade, cidade_valida, transformadores, subestacoes, pc, limite,
                   limite_valido, pontos, territorios, tabela_voronoi, geojson>>

Next ==
    \/ ObterLimite
    \/ CarregarTrafos
    \/ ProcessarVoronoi
    \/ SalvarBanco
    \/ ExportarGeoJSON
    \/ Validar

Spec == Init /\ [][Next]_vars

(* The same program on a strip of FaixaW locations, where the parts of an  *)
(* owner can differ in area; every transformer falls back on the default   *)
(* name.                                                                    *)
InitFaixa ==
    /\ cidade \in (SUBSET Faixa) \ {{}}
    /\ cidade_valida = TRUE
    /\ transformadores \in
          {T \in SUBSET [SUB : Owners, geometry : Faixa] : Cardinality(T) <= MaxPontos}
    /\ subestacoes = {}
    /\ pc = "inicio"
    /\ limite = {}
    /\ limite_valido = TRUE
    /\ pontos = <<>>
    /\ territorios = <<>>
    /\ tabela_voronoi = <<>>
    /\ geojson = SemArquivo
    /\ laudo = SemLaudo
    /\ registro = {}
    /\ ForaParado

SpecFaixa == InitFaixa /\ [][Next]_vars

(* validacao_tecnica.py run on its own: the territory file is whatever     *)
(* GeoJSON lies at ARQUIVO_GEOJSON (features with COD_ID, NOM and a        *)
(* polygon or multipolygon in EPSG:4326, which line 65 explodes), or no    *)
(* file; no generation is running.                                          *)
ArquivosPossiveis ==
    LET geoms == {{<<4326, l[1], l[2]>> : l \in G} : G \in (SUBSET Regiao) \ {{}}}
        linha == {[COD_ID |-> o, NOM |-> NomePadrao(o), geometry |-> g] :
                      o \in Owners, g \in geoms}
    IN {SemArquivo} \cup
       {[existe |-> TRUE, linhas |-> L] :
            L \in UNION {[1..n -> linha] : n \in 0..MaxLinhas}}

InitValidacao ==
    /\ cidade = Regiao
    /\ cidade_valida = TRUE
    /\ transformadores \in
          {T \in SUBSET [SUB : Owners, geometry : Regiao] : Cardinality(T) <= MaxPontos}
    /\ subestacoes = {}
    /\ pc = "abortado"
    /\ limite = {}
    /\ limite_valido = TRUE
    /\ pontos = <<>>
    /\ territorios = <<>>
    /\ tabela_voronoi = <<>>
    /\ geojson \in ArquivosPossiveis
    /\ laudo = SemLaudo
    /\ registro = {}
    /\ ForaParado

SpecValidacao == InitValidacao /\ [][Validar]_vars

----------------------------------------------------------------------------
(* What the claims speak of *)

(* main() holds the territories of this run *)
Gerado == pc \in {"territorios", "salvo", "concluido"}

Uniao(gdf) == UNION {gdf[i].geometry : i \in 1..Len(gdf)}
ConjuntoDe(gdf) == {gdf[i] : i \in 1..Len(gdf)}

(* the asset points of the run and their owners *)
LinhasCarregadas == ConsultaTrafos(limite, transformadores, subestacoes)
DonosCarregados == {r.cod_id_sub : r \in LinhasCarregadas}
SitiosCarregados == {r.geometry : r \in LinhasCarregadas}

(* one order of the rows of a set *)
RECURSIVE UmaOrdem(_)
UmaOrdem(S) ==
    IF S = {} THEN <<>>
    ELSE LET r == CHOOSE x \in S : TRUE IN <<r>> \o UmaOrdem(S \ {r})

(* the territories before the clip, for one order of the rows *)
AntesDoRecorte == gdf_territorios(limite, UmaOrdem(LinhasCarregadas))

(* C1: completeness. After territory generation the union of the output    *)
(* territory geometries equals the boundary B: no location of B is left     *)
(* without a territory.                                                     *)
C1_Completude ==
    Gerado => Uniao(territorios) = limite

(* a run over an irregular boundary with two owners has produced its output *)
C1_Testemunha ==
    /\ Gerado
    /\ Cardinality(DonosCarregados) >= 2
    /\ limite # Envelope(limite)
    /\ Cardinality(limite) >= 3
    /\ Uniao(territorios) = limite

(* C3: every output territory geometry is a subset of the boundary B; the  *)
(* frame padding of the tessellation is stripped by the clip.               *)
C3_DentroDoLimite ==
    Gerado => \A i \in 1..Len(territorios) : territorios[i].geometry \subseteq limite

(* the territories reached into the padding before the clip, and the       *)
(* output lies inside the boundary                                          *)
C3_Testemunha ==
    /\ Gerado
    /\ Len(territorios) >= 2
    /\ \E j \in 1..Len(AntesDoRecorte) : AntesDoRecorte[j].geometry \ limite # {}
    /\ \A i \in 1..Len(territorios) : territorios[i].geometry \subseteq limite

(* C2: exclusivity. Two output territories that carry different owner ids *)
(* share no location.                                                       *)
C2_Exclusividade ==
    Gerado =>
        \A i, j \in 1..Len(territorios) :
            territorios[i].COD_ID # territorios[j].COD_ID
                => territorios[i].geometry \cap territorios[j].geometry = {}

(* the asset points the containment check keeps: their owner has a         *)
(* territory and they lie in the mapped area                                *)
PontosRetidos ==
    {t \in transformadores :
        /\ t.SUB \in {territorios[i].COD_ID : i \in 1..Len(territorios)}
        /\ t.geometry \in Uniao(territorios)}

(* every retained point lies in a territory of its own owner (the code     *)
(* keeps no list of fragment exceptions)                                    *)
NoProprioTerritorio ==
    Gerado =>
        \A t \in PontosRetidos :
            \E i \in 1..Len(territorios) :
                territorios[i].COD_ID = t.SUB /\ t.geometry \in territorios[i].geometry

(* C4: containment. Every retained asset point lies in the territory of    *)
(* its own owner, and none lies in a territory of another owner.            *)
C4_Contencao ==
    /\ NoProprioTerritorio
    /\ Gerado =>
        \A t \in PontosRetidos :
            \A i \in 1..Len(territorios) :
                t.geometry \in territorios[i].geometry => territorios[i].COD_ID = t.SUB

(* the least threshold that filters anything *)
minAssetsPerOwner == 2

ContagemDoDono(o) ==
    Cardinality({t \in transformadores : t.SUB = o /\ t.geometry \in JanelaSQL(limite)})

(* C5: threshold filtering. No output territory carries the id of an owner *)
(* with fewer than minAssetsPerOwner asset points.                          *)
C5_FiltroMinimo ==
    Gerado =>
        \A i \in 1..Len(territorios) :
            ContagemDoDono(territorios[i].COD_ID) >= minAssetsPerOwner

(* the owners of the asset points a run over this database loads *)
DonosDaExecucao ==
    {r.cod_id_sub : r \in ConsultaTrafos(cidade, transformadores, subestacoes)}

(* C6: with fewer than 2 distinct owners the run fails: it does not get    *)
(* past the loading of the points and emits no territory.                   *)
C6_DonosInsuficientes ==
    Cardinality(DonosDaExecucao) < 2 =>
        /\ pc \in {"inicio", "limite", "abortado"}
        /\ territorios = <<>>
        /\ tabela_voronoi = <<>>
        /\ ~geojson.existe

C8_Determinismo ==
    Gerado =>
        \A o \in Ordens(LinhasCarregadas) :
            ConjuntoDe(processar_voronoi_robusto(limite, o)) = ConjuntoDe(territorios)

(* the territory set the validation read *)
Validados == to_crs_31984(geojson.linhas)
DonosValidados == {Validados[j].COD_ID : j \in 1..Len(Validados)}
GeometriaDoDono(gdf, o) ==
    UNION {gdf[j].geometry : j \in {k \in 1..Len(gdf) : gdf[k].COD_ID = o}}
NumPartes(gdf, o) == Len(Partes(GeometriaDoDono(gdf, o)))

RECURSIVE SomaPartes(_, _)
SomaPartes(gdf, S) ==
    IF S = {} THEN 0
    ELSE LET o == CHOOSE x \in S : TRUE
         IN NumPartes(gdf, o) + SomaPartes(gdf, S \ {o})

(* C9: the fragmentation index the validation reports, n_fragmentos over   *)
(* n_subs, equals the connected components of all owners over the number    *)
(* of distinct owners, and is 1 exactly when every owner's territory is     *)
(* one connected component.                                                 *)
C9_IndiceFragmentacao ==
    laudo.estado = "ok" =>
        /\ laudo.n_fragmentos * Cardinality(DonosValidados)
              = SomaPartes(Validados, DonosValidados) * laudo.n_subs
        /\ (laudo.n_fragmentos = laudo.n_subs)
              <=> \A o \in DonosValidados : NumPartes(Validados, o) = 1

Adjacentes(G, H) == \E l \in G : Vizinhos(l) \cap H # {}

(* two parts of a's territory both border b's territory *)
SeparadoPor(a, b) ==
    LET pa == Partes(GeometriaDoDono(Validados, a))
        gb == GeometriaDoDono(Validados, b)
    IN \E i, k \in 1..Len(pa) :
          i # k /\ Adjacentes(pa[i], gb) /\ Adjacentes(pa[k], gb)

(* C10: fragmentation detection. When the territory of owner a is split in *)
(* two by the territory of owner b, the reported fragmentation index is     *)
(* above 1.                                                                 *)
C10_DeteccaoFragmentacao ==
    laudo.estado = "ok" =>
        \A a, b \in DonosValidados :
            (a # b /\ SeparadoPor(a, b)) => laudo.n_fragmentos > laudo.n_subs

----------------------------------------------------------------------------
(* C11: no partial commit.  If any stage of a run fails (boundary fetch,   *)
(* asset load, tessellation, clip, database persistence or file export)    *)
(* the whole run aborts, and an aborted run leaves no territory data of    *)
(* that run in any store: neither in the table nor in the GeoJSON file.    *)
C11_SemCommitParcial ==
    /\ pc = "abortado" => (tabela_voronoi = <<>> /\ ~geojson.existe)
    /\ pc \in {"salvo", "concluido"} =>
           Mensagem("WARNING", "Banco inacessivel") \notin registro

----------------------------------------------------------------------------
(* The place of a position of main() in the order of its stages *)
Posicao(p) ==
    CASE p = "inicio" -> 0
      [] p = "limite" -> 1
      [] p = "pontos" -> 2
      [] p = "territorios" -> 3
      [] p = "salvo" -> 4
      [] p = "concluido" -> 5
      [] OTHER -> 6

----------------------------------------------------------------------------
(* C13 as stated: when the boundary is missing, empty or self-intersecting *)
(* (invalid), the run fails and emits nothing: no territories are          *)
(* computed, persisted or exported from such a boundary.                   *)
C13_LimiteInvalidoFalha ==
    /\ ~cidade_valida =>
           /\ ~Gerado
           /\ territorios = <<>>
           /\ tabela_voronoi = <<>>
           /\ ~geojson.existe
    /\ Mensagem("ERROR", "Erro critico ao baixar limite") \in registro =>
           /\ pc = "abortado"
           /\ tabela_voronoi = <<>>
           /\ ~geojson.existe

(* C13 amended: when the boundary cannot be obtained the run exits with an *)
(* error and computes, persists and exports nothing; a self-intersecting   *)
(* boundary does not fail the run: it is repaired (make_valid) and every   *)
(* later stage works on the repaired boundary, valid and of the same area. *)
C13_LimiteReparado ==
    /\ pc \notin {"inicio", "abortado"} => (limite_valido /\ limite = cidade)
    /\ Mensagem("ERROR", "Erro critico ao baixar limite") \in registro =>
           /\ pc = "abortado"
           /\ territorios = <<>>
           /\ tabela_voronoi = <<>>
           /\ ~geojson.existe

C13_Testemunha ==
    /\ ~cidade_valida
    /\ pc = "concluido"
    /\ limite_valido
    /\ geojson.existe
    /\ tabela_voronoi # <<>>
    /\ Uniao(territorios) = cidade

----------------------------------------------------------------------------
DonosNaSaida == {territorios[i].COD_ID : i \in 1..Len(territorios)}

(* C14: when an owner's geometry is empty after the clip to the boundary,  *)
(* the owner is dropped from the output, a WARNING that names that owner   *)
(* is recorded, and the run goes on for the remaining owners.              *)
C14_DonoDegenerado ==
    Gerado =>
        LET antes == AntesDoRecorte
        IN \A j \in 1..Len(antes) :
               antes[j].geometry \cap limite = {} =>
                   /\ antes[j].COD_ID \notin DonosNaSaida
                   /\ \E m \in registro :
                          m.nivel = "WARNING" /\ m.dono = antes[j].COD_ID

----------------------------------------------------------------------------
(* The rows the explode has to yield for one dissolved territory: one per  *)
(* part of its clipped geometry, under its id                               *)
LinhasEsperadas(r) ==
    {[COD_ID |-> r.COD_ID, geometry |-> p] :
        p \in {Partes(r.geometry \cap limite)[k] :
                  k \in 1..Len(Partes(r.geometry \cap limite))}}

----------------------------------------------------------------------------
(* C16: for every owner, the component of largest area is the one that     *)
(* stands for the owner (its canonical territory geometry): whatever the   *)
(* order in which the saved rows are read back, the geometry the merge     *)
(* keeps for an owner is at least as large as every row of that owner.     *)
C16_ComponenteCanonico ==
    tabela_voronoi # <<>> =>
        \A ord \in Ordens(ConjuntoDe(tabela_voronoi)) :
            \A i \in 1..Len(ord) :
                Cardinality(ord[i].geometry) <=
                    Cardinality(geo_map(ord)[<<"COD_ID", ord[i].COD_ID>>])

----------------------------------------------------------------------------
(* The raw asset points of an owner: the rows the run loaded for it *)
PontosDoDono(o) == {r.geometry : r \in {q \in LinhasCarregadas : q.cod_id_sub = o}}

RECURSIVE SomaCoord(_, _)
SomaCoord(S, c) ==
    IF S = {} THEN 0
    ELSE LET l == CHOOSE x \in S : TRUE IN l[c] + SomaCoord(S \ {l}, c)

(* The centroid of the owner's points lies outside the boundary: no        *)
(* location of the boundary holds it, its edges included (the points sit   *)
(* in the middle of their locations; n times the centroid is the sum)      *)
CentroideFora(o) ==
    LET P == PontosDoDono(o)
        n == Cardinality(P)
        dentro(l) == /\ 2 * n * l[1] - n <= 2 * SomaCoord(P, 1)
                     /\ 2 * SomaCoord(P, 1) <= 2 * n * l[1] + n
                     /\ 2 * n * l[2] - n <= 2 * SomaCoord(P, 2)
                     /\ 2 * SomaCoord(P, 2) <= 2 * n * l[2] + n
    IN \A l \in limite : ~dentro(l)

(* What a reader of a territory row finds as its isExternalFlag: a row     *)
(* without that field is not flagged                                        *)
FlagExterno(r) == IF "isExternalFlag" \in DOMAIN r THEN r.isExternalFlag ELSE FALSE

(* C17: for every owner in the output, isExternalFlag is true exactly when *)
(* the centroid of the owner's raw asset points lies outside the boundary; *)
(* the flag leaves the geometries as they are.                             *)
C17_FlagExterno ==
    Gerado =>
        \A i \in 1..Len(territorios) :
            FlagExterno(territorios[i]) = CentroideFora(territorios[i].COD_ID)

----------------------------------------------------------------------------
----------------------------------------------------------------------------
(* C19: every verdict of the validation about the fragmentation index      *)
(* n_fragmentos / n_subs, the result of test [1/3] and the final report,   *)
(* is "acceptable" exactly when the index is below 1.5 and "alert" for     *)
(* every index of 1.5 or more, 1.5 itself included.                        *)
C19_VereditoFragmentacao ==
    laudo.estado = "ok" =>
        /\ laudo.resultado = "BOM" <=> 2 * laudo.n_fragmentos < 3 * laudo.n_subs
        /\ laudo.resultado = "ALERTA" <=> 2 * laudo.n_fragmentos >= 3 * laudo.n_subs
        /\ laudo.insight <=> 2 * laudo.n_fragmentos >= 3 * laudo.n_subs

----------------------------------------------------------------------------
(* The retained asset points the validation checks: those of an owner of   *)
(* the file that lie in the mapped area                                     *)
PontosChecados ==
    {t \in transformadores :
        t.SUB \in DonosValidados /\ t.geometry \in Uniao(Validados)}

PontosCertos ==
    {t \in PontosChecados :
        \E j \in 1..Len(Validados) :
            Validados[j].COD_ID = t.SUB /\ t.geometry \in Validados[j].geometry}

(* C20: the containment rate is 100 * matched / total, with total the      *)
(* number of retained points checked and matched the number of them that   *)
(* lie in a territory of their own owner; a point counts at most once, so  *)
(* the rate is between 0 and 100; and the rate is defined for every        *)
(* territory file the validation accepts.                                  *)
C20_TaxaDeContencao ==
    (geojson.existe /\ laudo.estado # "nenhum") =>
        /\ laudo.estado = "ok"
        /\ laudo.total = Cardinality(PontosChecados)
        /\ laudo.acertos = Cardinality(PontosCertos)
        /\ laudo.acertos <= laudo.total

(***************************************************************************)
(* validacao_tecnica.py, test [2/3]: the calibration of the silhouette     *)
(* score.  The score is kept in hundredths (-100..100) and the percentage  *)
(* in thirds of a percent, so that (max(0, score) / 0.6) * 100 is the      *)
(* exact integer 5 * max(0, score) and 100% is 300.                         *)
(***************************************************************************)
Scores == (0 - 100)..100

confianca_sem_teto(s) == 5 * Max({0, s})
confianca_percent(s) == Min({300, 5 * Max({0, s})})

(* the try block: silhouette_score returns and the percentage is printed,  *)
(* or it raises, score becomes 0 and no percentage is printed (-2)          *)
TesteDeCoesao ==
    /\ confianca = -1
    /\ \/ /\ confianca' = confianca_percent(score)
          /\ score' = score
       \/ /\ score' = 0
          /\ confianca' = -2
    /\ UNCHANGED ForaSilhueta

InitSilhueta ==
    /\ Parado("silhueta")
    /\ score \in Scores
    /\ confianca = -1

SpecSilhueta == InitSilhueta /\ [][TesteDeCoesao]_vars

(* C21: whatever coefficient in [-1, 1] the clustering returns, the        *)
(* percentage reported for it lies in [0, 100], is 0 for a coefficient of  *)
(* at most 0, is within five points of 80 for 0.5, is 100 from 0.6 on, and *)
(* is no smaller than the percentage of any smaller coefficient             *)
C21_Calibracao ==
    confianca >= 0 =>
        /\ confianca <= 300
        /\ score <= 0 => confianca = 0
        /\ score = 50 => (confianca >= 225 /\ confianca <= 255)
        /\ score >= 60 => confianca = 300
        /\ \A c \in Scores : c <= score => confianca_percent(c) <= confianca

C21_Testemunha == score = 50 /\ confianca = 250

(* the scenario on the strip, four unit columns for the ten units of the   *)
(* square: owner 1 has its one point in the first column and owner 2 its   *)
(* one point in the last, and the line x = 5 is the line between the       *)
(* second column and the third                                              *)
Quadrado == {<<0, 0>>, <<1, 0>>, <<2, 0>>, <<3, 0>>}

Cenario ==
    /\ cidade = Quadrado
    /\ transformadores = {[SUB |-> 1, geometry |-> <<0, 0>>],
                          [SUB |-> 2, geometry |-> <<3, 0>>]}

MetadeDoDono(o) ==
    {l \in Quadrado : IF o = 1 THEN l[1] < 2 ELSE l[1] >= 2}

(* C22: in the scenario the generation yields exactly two territories, the *)
(* half of the boundary on owner 1's side for owner 1 and the other half   *)
(* for owner 2, and the validation of that output reports a containment    *)
(* rate of 100 percent and a fragmentation index of 1.0                     *)
C22_CenarioConcreto ==
    Cenario =>
        /\ Gerado =>
              /\ Len(territorios) = 2
              /\ \A o \in {1, 2} : \E i \in 1..2 :
                     /\ territorios[i].COD_ID = o
                     /\ territorios[i].geometry = MetadeDoDono(o)
        /\ (pc = "concluido" /\ laudo.estado # "nenhum") =>
              /\ laudo.estado = "ok"
              /\ laudo.total = 2
              /\ 100 * laudo.acertos = 100 * laudo.total
              /\ laudo.n_fragmentos = laudo.n_subs

C22_Testemunha ==
    Cenario /\ pc = "concluido" /\ laudo.estado = "ok" /\ Len(territorios) = 2

(* C23: every point the validation counts in the containment rate or       *)
(* takes into the sample of the separation score has an owner id that one  *)
(* of the rows of the territory file carries                                *)
C23_SoDonosPresentes ==
    laudo.estado = "ok" =>
        \A p \in laudo.pontos \cup laudo.amostra :
            \E j \in 1..Len(geojson.linhas) : geojson.linhas[j].COD_ID = p.cod_id_sub

(* a report on a file that lacks the owner of one of the points in the     *)
(* mapped area                                                              *)
C23_Testemunha ==
    /\ laudo.estado = "ok"
    /\ \E t \in transformadores :
          /\ \A j \in 1..Len(geojson.linhas) : geojson.linhas[j].COD_ID # t.SUB
          /\ \E j \in 1..Len(geojson.linhas) :
                 <<4326, t.geometry[1], t.geometry[2]>> \in geojson.linhas[j].geometry

(* the raw cells of the run and the owners the join gives to a cell *)
CelulasBrutas == voronoi_diagram(pontos_uniao(pontos), envelope_expandido(limite))

DonosDaCelula(c) ==
    LET linhas == sjoin_contains(<<c>>, pontos)
    IN {linhas[n].cod_id_sub : n \in 1..Len(linhas)}

(* C24: once the points are loaded, every raw cell of the diagram is       *)
(* joined to exactly one owner: never to two different owners and never    *)
(* to none                                                                  *)
C24_UmDonoPorCelula ==
    pc = "pontos" =>
        LET celulas == CelulasBrutas
        IN \A i \in 1..Len(celulas) : Cardinality(DonosDaCelula(celulas[i])) = 1

----------------------------------------------------------------------------
(***************************************************************************)
(* chat_service.py: GeminiKeyManager and call_gemini_with_retry_and_       *)
(* rotation.  The endpoints are plain def functions, which the server runs *)
(* in a pool of threads, so several calls share the one key_manager.  A    *)
(* thread can lose the processor wherever it waits: in the request to the  *)
(* provider and in the print of mark_exhausted_and_rotate.                  *)
(***************************************************************************)
Chaves == 0..(api_keys - 1)
Pedidos == 1..NumPedidos

(* lines 100-105: the first index of range(len(api_keys)) that is not in  *)
(* the exhausted set, -1 when there is none                                 *)
proxima_sem_verificar(exhausted, n) == 0
proxima_chave(exhausted, n) ==
    IF (0..(n - 1)) \ exhausted = {} THEN -1
    ELSE Min((0..(n - 1)) \ exhausted)

(* a request enters call_gemini_with_retry_and_rotation; max_key_attempts  *)
(* is len(GEMINI_API_KEYS)                                                  *)
Chamar(r) ==
    /\ pedido[r].pc = "fora"
    /\ pedido' = [pedido EXCEPT ![r] = [PedidoFora EXCEPT !.pc = "get_client"]]
    /\ UNCHANGED <<api_keys, current_index, exhausted_keys, limitadas>>
    /\ UNCHANGED ForaGemini

(* the head of the for loop and key_manager.get_client(): after the last   *)
(* attempt the function raises "Todas as tentativas de chave falharam"      *)
GetClient(r) ==
    /\ pedido[r].pc = "get_client"
    /\ IF pedido[r].key_attempt >= api_keys
       THEN pedido' = [pedido EXCEPT ![r].pc = "fora",
                                     ![r].resultado = "esgotado"]
       ELSE pedido' = [pedido EXCEPT ![r].pc = "generate",
                                     ![r].cliente = current_index]
    /\ UNCHANGED <<api_keys, current_index, exhausted_keys, limitadas>>
    /\ UNCHANGED ForaGemini

(* _call(): the client's key is rate-limited and the provider answers 429, *)
(* or the provider answers with the response, or the call ends in another  *)
(* error, which the function raises again                                   *)
GenerateContent(r) ==
    /\ pedido[r].pc = "generate"
    /\ \/ /\ pedido[r].cliente \in limitadas
          /\ pedido' = [pedido EXCEPT
                 ![r].pc = "marcar",
                 ![r].tentativas = @ + 1,
                 ![r].respondeu = @ \cup {pedido[r].cliente}]
       \/ /\ pedido[r].cliente \notin limitadas
          /\ \E res \in {"resposta", "erro"} :
                 pedido' = [pedido EXCEPT ![r].pc = "fora",
                                          ![r].tentativas = @ + 1,
                                          ![r].resultado = res]
    /\ UNCHANGED <<api_keys, current_index, exhausted_keys, limitadas>>
    /\ UNCHANGED ForaGemini

(* mark_exhausted_and_rotate, lines 97-98: the index that is current now   *)
(* joins the exhausted set and the warning is printed                       *)
Marcar(r) ==
    /\ pedido[r].pc = "marcar"
    /\ exhausted_keys' = exhausted_keys \cup {current_index}
    /\ pedido' = [pedido EXCEPT ![r].pc = "rodar"]
    /\ UNCHANGED <<api_keys, current_index, limitadas>>
    /\ UNCHANGED ForaGemini

(* mark_exhausted_and_rotate, lines 100-108, and what the caller does with *)
(* the answer: True, and the loop goes on with the next attempt, or False, *)
(* and the 429 is raised again                                              *)
Rodar(r) ==
    /\ pedido[r].pc = "rodar"
    /\ LET i == proxima_chave(exhausted_keys, api_keys)
       IN IF i >= 0
          THEN /\ current_index' = i
               /\ pedido' = [pedido EXCEPT ![r].pc = "get_client",
                                           ![r].retorno = 1,
                                           ![r].key_attempt = @ + 1]
          ELSE /\ current_index' = current_index
               /\ pedido' = [pedido EXCEPT ![r].pc = "fora",
                                           ![r].retorno = 0,
                                           ![r].resultado = "429"]
    /\ UNCHANGED <<api_keys, exhausted_keys, limitadas>>
    /\ UNCHANGED ForaGemini

(* reset_exhausted(), "call this daily or on new day" *)
ResetExhausted ==
    /\ exhausted_keys # {}
    /\ exhausted_keys' = {}
    /\ current_index' = 0
    /\ UNCHANGED <<api_keys, limitadas, pedido>>
    /\ UNCHANGED ForaGemini

NextGemini ==
    \/ \E r \in Pedidos : Chamar(r)
    \/ \E r \in Pedidos : GetClient(r)
    \/ \E r \in Pedidos : GenerateContent(r)
    \/ \E r \in Pedidos : Marcar(r)
    \/ \E r \in Pedidos : Rodar(r)
    \/ ResetExhausted

(* GeminiKeyManager(GEMINI_API_KEYS) with at least one key, and the keys   *)
(* the provider limits                                                      *)
InitGemini ==
    /\ Parado("gemini")
    /\ api_keys \in 1..NumChaves
    /\ current_index = 0
    /\ exhausted_keys = {}
    /\ limitadas \in SUBSET Chaves
    /\ pedido = [r \in Pedidos |-> PedidoFora]

SpecGemini == InitGemini /\ [][NextGemini]_vars

(* C25: mark_exhausted_and_rotate puts the index that is current into the  *)
(* exhausted set; when it returns True, current_index is an index outside  *)
(* the exhausted set; it returns False exactly when every configured key   *)
(* is in the exhausted set; and current_index is at all times an index of  *)
(* api_keys                                                                 *)
C25_MarcarERodar ==
    /\ [](current_index \in Chaves)
    /\ [][\A r \in Pedidos :
            /\ (pedido[r].pc = "marcar" /\ pedido'[r].pc = "rodar") =>
                   current_index \in exhausted_keys'
            /\ (pedido[r].pc = "rodar" /\ pedido'[r].pc # "rodar") =>
                   /\ pedido'[r].retorno = 1 =>
                          current_index' \in Chaves \ exhausted_keys'
                   /\ pedido'[r].retorno = 0 <=> exhausted_keys' = Chaves]_vars

(* a rotation that found a free key after another was marked *)
C25_Testemunha ==
    \E r \in Pedidos :
        /\ pedido[r].retorno = 1
        /\ pedido[r].pc = "get_client"
        /\ exhausted_keys # {}
        /\ current_index \notin exhausted_keys

(* C26: a call that has ended failed on rate limits only when no           *)
(* configured key was free of the rate limit, it raised the 429 only after *)
(* every configured key had answered 429 in that same call, and it asked   *)
(* the provider with at most len(keys) keys                                 *)
C26_RespostaOuTodas429 ==
    \A r \in Pedidos :
        /\ pedido[r].resultado \in {"429", "esgotado"} => limitadas = Chaves
        /\ pedido[r].resultado = "429" => pedido[r].respondeu = Chaves
        /\ pedido[r].tentativas <= api_keys

----------------------------------------------------------------------------
(***************************************************************************)
(* run_all.py: the batch steps, the three services and the monitoring      *)
(* loop.  sys.exit(1) raises SystemExit, which the except clause of line   *)
(* 147 does not catch; Ctrl+C raises KeyboardInterrupt wherever the try    *)
(* block stands.                                                            *)
(***************************************************************************)

(* run_step(script_name, description), lines 35-57 *)
run_step(script_name, proximo) ==
    /\ ra_pc = script_name
    /\ IF script_name \notin scripts
       THEN /\ passos' = [passos EXCEPT ![script_name] = -2]
            /\ ra_pc' = "saiu"
            /\ ra_codigo' = 1
       ELSE \E returncode \in {0, 1} :
               /\ passos' = [passos EXCEPT ![script_name] = returncode]
               /\ IF returncode = 0
                  THEN ra_pc' = proximo /\ ra_codigo' = ra_codigo
                  ELSE ra_pc' = "saiu" /\ ra_codigo' = 1
    /\ UNCHANGED <<scripts, filhos, atribuidos>>
    /\ UNCHANGED ForaRunAll

Iniciar ==
    /\ ra_pc = "inicio"
    /\ ra_pc' = "processar_voronoi.py"
    /\ UNCHANGED <<scripts, passos, filhos, atribuidos, ra_codigo>>
    /\ UNCHANGED ForaRunAll

GerarTerritorios == run_step("processar_voronoi.py", "analise_mercado.py")

CruzarMercado == run_step("analise_mercado.py", "train_model.py")

(* run_ai_training(script_name, description), lines 59-72: a missing       *)
(* script is skipped with a warning, and the exit code of the script is    *)
(* not looked at                                                            *)
run_ai_training(script_name) ==
    /\ ra_pc = script_name
    /\ IF script_name \notin scripts
       THEN passos' = [passos EXCEPT ![script_name] = -2]
       ELSE \E returncode \in {0, 1} :
               passos' = [passos EXCEPT ![script_name] = returncode]
    /\ ra_pc' = "popen"
    /\ UNCHANGED <<scripts, filhos, atribuidos, ra_codigo>>
    /\ UNCHANGED ForaRunAll

TreinarIA == run_ai_training("train_model.py")

(* the service that comes next in lines 123-127 *)
ProximoServico ==
    CHOOSE i \in 1..Len(Servicos) :
        /\ Servicos[i] \notin atribuidos
        /\ \A j \in 1..(i - 1) : Servicos[j] \in atribuidos

(* start_api / start_api_ai / start_dashboard: subprocess.Popen returns    *)
Popen ==
    /\ ra_pc = "popen"
    /\ filhos' = [filhos EXCEPT ![Servicos[ProximoServico]] = "rodando"]
    /\ ra_pc' = "atribuir"
    /\ UNCHANGED <<scripts, passos, atribuidos, ra_codigo>>
    /\ UNCHANGED ForaRunAll

(* ... and its result is bound to api_proc / api_ai_proc / dash_proc       *)
Atribuir ==
    /\ ra_pc = "atribuir"
    /\ atribuidos' = atribuidos \cup {Servicos[ProximoServico]}
    /\ ra_pc' = IF ProximoServico = Len(Servicos) THEN "loop" ELSE "popen"
    /\ UNCHANGED <<scripts, passos, filhos, ra_codigo>>
    /\ UNCHANGED ForaRunAll

(* a service process ends on its own *)
FilhoSai(s) ==
    /\ filhos[s] = "rodando"
    /\ filhos' = [filhos EXCEPT ![s] = "saiu"]
    /\ UNCHANGED <<scripts, ra_pc, passos, atribuidos, ra_codigo>>
    /\ UNCHANGED ForaRunAll

(* lines 133-145: a poll() that is not None ends the loop with break, and  *)
(* the script ends after the try statement                                  *)
Monitorar ==
    /\ ra_pc = "loop"
    /\ \E s \in NomesServicos : filhos[s] = "saiu"
    /\ ra_pc' = "saiu"
    /\ ra_codigo' = 0
    /\ UNCHANGED <<scripts, passos, filhos, atribuidos>>
    /\ UNCHANGED ForaRunAll

(* lines 147-155: the handler calls terminate() on the three variables in  *)
(* order; the first one that is not bound raises NameError, which the bare *)
(* except swallows                                                          *)
terminate(f, vinculados) ==
    [s \in NomesServicos |->
        IF s \in vinculados /\ f[s] = "rodando" THEN "terminado" ELSE f[s]]

KeyboardInterrupt ==
    /\ ra_pc \notin {"inicio", "saiu"}
    /\ filhos' = terminate(filhos, atribuidos)
    /\ ra_pc' = "saiu"
    /\ ra_codigo' = 0
    /\ UNCHANGED <<scripts, passos, atribuidos>>
    /\ UNCHANGED ForaRunAll

NextRunAll ==
    \/ Iniciar
    \/ GerarTerritorios
    \/ CruzarMercado
    \/ TreinarIA
    \/ Popen
    \/ Atribuir
    \/ \E s \in NomesServicos : FilhoSai(s)
    \/ Monitorar
    \/ KeyboardInterrupt

InitRunAll ==
    /\ Parado("run_all")
    /\ scripts \in SUBSET Passos
    /\ ra_pc = "inicio"
    /\ passos = [p \in Passos |-> -1]
    /\ filhos = [s \in NomesServicos |-> "nao_iniciado"]
    /\ atribuidos = {}
    /\ ra_codigo = -1

SpecRunAll == InitRunAll /\ [][NextRunAll]_vars

(* C27: the market analysis is started only after the territory generation *)
(* exited with code 0, a step that is missing or fails ends the            *)
(* orchestrator at once, and a service is started only after the territory *)
(* generation, the market analysis and the model training all exited with  *)
(* code 0                                                                   *)
C27_PassosAntesDosServicos ==
    /\ passos["analise_mercado.py"] # -1 => passos["processar_voronoi.py"] = 0
    /\ \A p \in Passos : passos[p] \in {-2, 1} => ra_pc = "saiu"
    /\ (\E s \in NomesServicos : filhos[s] # "nao_iniciado") =>
           \A p \in Passos : passos[p] = 0

(* C28: when run_all has exited, no service it started is still running    *)
C28_NenhumFilhoOrfao ==
    ra_pc = "saiu" => \A s \in NomesServicos : filhos[s] # "rodando"

----------------------------------------------------------------------------
(***************************************************************************)
(* analise_mercado.py, steps 1 and 2: the territories are loaded and the   *)
(* transformers are mapped to substations, from the parquet cache when the *)
(* file exists.  Transformer t stands at position t of a line, and the     *)
(* geometry of a territory row is the set of positions it covers.          *)
(* carregar_voronoi and salvar_voronoi are functions of database.py: they  *)
(* read and replace table territorios_voronoi.                              *)
(***************************************************************************)
Trafos == 1..NumTrafos

LinhasMercado == [COD_ID : Owners, geometry : (SUBSET Trafos) \ {{}}]

TabelasMercado == UNION {[1..n -> LinhasMercado] : n \in 0..MaxLinhas}

(* lines 199-229: sjoin(gdf_trafos, gdf_voronoi, how="inner",              *)
(* predicate="intersects") and drop_duplicates(subset=["ID_TRAFO"]): every *)
(* transformer some territory covers, with the id of the first such row; 0 *)
(* stands for a transformer the inner join leaves out                       *)
ref_trafos(gdf) ==
    [t \in Trafos |->
        LET js == {j \in 1..Len(gdf) : t \in gdf[j].geometry}
        IN IF js = {} THEN 0 ELSE gdf[Min(js)].COD_ID]

(* processar_voronoi.py main(): the table is replaced by the new           *)
(* territories; the GeoJSON it writes is subestacoes_logicas.geojson, not  *)
(* the file the analysis falls back to                                      *)
GerarVoronoi ==
    /\ \E t \in TabelasMercado \ {<<>>} :
          /\ t # voronoi_db
          /\ voronoi_db' = t
    /\ UNCHANGED <<voronoi_arquivo, cache_trafos, voronoi_lido, mapa_trafo_sub,
                   am_estado>>
    /\ UNCHANGED ForaMercado

(* migracao_db.limpar_dados_antigos: TRUNCATE of the layer tables, of      *)
(* territorios_voronoi and of cache_mercado; no file is removed             *)
LimparDadosAntigos ==
    /\ voronoi_db # <<>>
    /\ voronoi_db' = <<>>
    /\ UNCHANGED <<voronoi_arquivo, cache_trafos, voronoi_lido, mapa_trafo_sub,
                   am_estado>>
    /\ UNCHANGED ForaMercado

(* analisar_mercado(), lines 134-241 *)
AnalisarMercado ==
    LET lido == IF voronoi_db # <<>> THEN voronoi_db ELSE voronoi_arquivo
    IN /\ IF lido = <<>>
          THEN /\ am_estado' = "abortado"
               /\ UNCHANGED <<cache_trafos, voronoi_lido, mapa_trafo_sub>>
          ELSE /\ am_estado' = "ok"
               /\ voronoi_lido' = lido
               /\ IF cache_trafos.existe
                  THEN /\ mapa_trafo_sub' = cache_trafos.mapa
                       /\ UNCHANGED cache_trafos
                  ELSE /\ mapa_trafo_sub' = ref_trafos(lido)
                       /\ cache_trafos' = [existe |-> TRUE, mapa |-> ref_trafos(lido)]
       /\ UNCHANGED <<voronoi_db, voronoi_arquivo>>
       /\ UNCHANGED ForaMercado

NextMercado ==
    \/ GerarVoronoi
    \/ LimparDadosAntigos
    \/ AnalisarMercado

InitMercado ==
    /\ Parado("mercado")
    /\ voronoi_db = <<>>
    /\ voronoi_arquivo \in {t \in TabelasMercado : Len(t) <= 1}
    /\ cache_trafos = SemCache
    /\ voronoi_lido = <<>>
    /\ mapa_trafo_sub = <<>>
    /\ am_estado = "nenhum"

SpecMercado == InitMercado /\ [][NextMercado]_vars

(* C29: the mapping an analysis run used is the one derived from the       *)
(* territory set that run loaded, whatever generations, clean-ups and      *)
(* analyses came before                                                     *)
C29_MapaDoMesmoRun ==
    am_estado = "ok" => mapa_trafo_sub = ref_trafos(voronoi_lido)

----------------------------------------------------------------------------
(***************************************************************************)
(* utils.fundir_dados_geo_mercado, lines 146-168: every item of the market *)
(* report gets the geometry geo_map keeps for its name, and when there is  *)
(* none the geometry geo_map keeps for its id.  An item carries            *)
(* subestacao = "<name> (ID: <id>)", here the pair <<name, id>>, and       *)
(* id_tecnico; name 0 is an item without a name, and {} is None.           *)
(***************************************************************************)
nome_limpo(subestacao) == subestacao[1]

Buscar(mapa, chave) == IF chave \in DOMAIN mapa THEN mapa[chave] ELSE {}

fundir_dados_geo_mercado(gdf, lista_mercado) ==
    LET mapa == geo_map(gdf)
    IN [i \in 1..Len(lista_mercado) |->
           LET item == lista_mercado[i]
               pelo_nome == IF nome_limpo(item.subestacao) # 0
                            THEN Buscar(mapa, <<"NOM", nome_limpo(item.subestacao)>>)
                            ELSE {}
               geom_encontrada == IF pelo_nome # {}
                                  THEN pelo_nome
                                  ELSE Buscar(mapa, <<"COD_ID", item.id_tecnico>>)
           IN [subestacao |-> item.subestacao,
               id_tecnico |-> item.id_tecnico,
               geometry |-> geom_encontrada]]

(* the territory rows the dashboard hands over: ids, names (a name of      *)
(* table subestacoes or the default name of the id) and geometries          *)
LinhasFusao ==
    {r \in [COD_ID : Owners,
            NOM : Nomes \cup {NomePadrao(o) : o \in Owners},
            geometry : (SUBSET Regiao) \ {{}}] :
        r.NOM \in Nomes \cup {NomePadrao(r.COD_ID)}}

(* the items of the market report for a territory set: the name of an item *)
(* is the name of a row of its id when the set has one                      *)
ItensPara(gdf) ==
    {it \in [id_tecnico : Owners,
             subestacao : (Nomes \cup {NomePadrao(o) : o \in Owners} \cup {0}) \X Owners] :
        /\ it.subestacao[2] = it.id_tecnico
        /\ it.subestacao[1] \in Nomes \cup {NomePadrao(it.id_tecnico), 0}
        /\ (\E j \in 1..Len(gdf) : gdf[j].COD_ID = it.id_tecnico) =>
               \E j \in 1..Len(gdf) : /\ gdf[j].COD_ID = it.id_tecnico
                                      /\ gdf[j].NOM = it.subestacao[1]}

Fundir ==
    /\ dados_finais = <<>>
    /\ dados_finais' = fundir_dados_geo_mercado(gdf_fusao, dados_mercado)
    /\ UNCHANGED <<gdf_fusao, dados_mercado>>
    /\ UNCHANGED ForaFusao

InitFusao ==
    /\ Parado("fusao")
    /\ gdf_fusao \in UNION {[1..n -> LinhasFusao] : n \in 0..MaxLinhas}
    /\ dados_mercado \in UNION {[1..n -> ItensPara(gdf_fusao)] : n \in 1..MaxItens}
    /\ dados_finais = <<>>

SpecFusao == InitFusao /\ [][Fundir]_vars

(* C30: every merged item carries the geometry of a territory row whose    *)
(* COD_ID is the item's id_tecnico, or None when no row has that id; never *)
(* a geometry of rows of other ids only; and the same geometry whatever    *)
(* the order of the rows                                                    *)
C30_GeometriaDoProprioDono ==
    dados_finais # <<>> =>
        /\ \A i \in 1..Len(dados_finais) :
              LET g == dados_finais[i].geometry
                  minhas == {j \in 1..Len(gdf_fusao) :
                                gdf_fusao[j].COD_ID = dados_finais[i].id_tecnico}
              IN IF minhas = {} THEN g = {}
                 ELSE \E j \in minhas : gdf_fusao[j].geometry = g
        /\ \A ord \in Ordens(ConjuntoDe(gdf_fusao)) :
              fundir_dados_geo_mercado(ord, dados_mercado) = dados_finais

====
